---- MODULE Spec2Model ----
(***************************************************************************)
(* A model of extract-pps: the dependency graph of a CoNLL-X sentence      *)
(* (src/src/graph.rs) and the extraction of ambiguous PP attachments       *)
(* (src/src/bin/extract-ambiguous-pps.rs).                                 *)
(*                                                                         *)
(* Conventions.                                                            *)
(*  - A Rust Option is None or Some(x).                                    *)
(*  - A string that the code only compares for equality (a topological     *)
(*    field, a relation label) is a TLA+ string; a part-of-speech tag, of  *)
(*    which the code inspects the first character, is a sequence of        *)
(*    one-character strings.                                               *)
(*  - Sequences are 1-based: the node with NodeIndex k-1 is g.nodes[k],    *)
(*    and its offset field holds the 0-based position k-1.  A token's head *)
(*    h (1-based in CoNLL-X, 0 = root) therefore names g.nodes[h], which   *)
(*    is the code's nodes[head - 1].                                       *)
(*  - A computation that does not return has the result Bottom (an         *)
(*    unbounded recursion or loop) and a procedure that panics has the     *)
(*    outcome Panic.                                                       *)
(***************************************************************************)
EXTENDS Integers, Sequences, FiniteSets, TLC

VARIABLES
    sentence,     \* the conllx::Sentence being processed
    projective,   \* sentence_to_graph's flag
    g,            \* the DependencyGraph: [nodes, edges], edges in raw_edges() order
    pc,           \* the position of the program
    idx,          \* the loop index of sentence_to_graph
    start,        \* the node a traversal was started at
    cur,          \* AncestorTokens.current / resolve_verb's argument
    steps,        \* items yielded by the iterator / calls of resolve_verb so far
    all,          \* the --all flag
    eidx,         \* how many raw edges extract_ambiguous_pps has visited
    instances,    \* extract_ambiguous_pps's result vector
    last,         \* what extract_ambiguous_pps did with the last PP edge it visited
    printed,      \* how many instances print_graph_ambiguous_pps has handled
    p_offset,     \* compute_ranks' first argument
    competition,  \* compute_ranks' second argument
    ranks         \* compute_ranks' result

vars == <<sentence, projective, g, pc, idx, start, cur, steps, all, eidx,
          instances, last, printed, p_offset, competition, ranks>>

----------------------------------------------------------------------------
(* Bounds of the model.                                                    *)

\* Longest sentence of the graph-construction and traversal specifications.
MaxLen == 3

\* How many steps past the sentence length a traversal is followed.
WalkSlack == 2

\* Greatest node offset and longest candidate vector given to compute_ranks
\* in the ranking specification.
MaxOffset == 3

MaxCands == 3

\* Longest sentence of the extraction specification.
ExtractLen == 4
ScanLen == 5

----------------------------------------------------------------------------
(* Option, strings, tokens.                                                *)

None == [some |-> FALSE]

Some(x) == [some |-> TRUE, val |-> x]

\* str::starts_with
StartsWith(s, prefix) ==
    /\ Len(s) >= Len(prefix)
    /\ SubSeq(s, 1, Len(prefix)) = prefix

NN == <<"N", "N">>
VVFIN == <<"V", "V", "F", "I", "N">>
VAFIN == <<"V", "A", "F", "I", "N">>
VMFIN == <<"V", "M", "F", "I", "N">>
VVPP == <<"V", "V", "P", "P">>
APPR == <<"A", "P", "P", "R">>
KOUS == <<"K", "O", "U", "S">>

PREP_COMPL_RELATION == "PN"
PP_RELATION == "PP"
AUXILIARY_RELATION == "AUX"
TOPO_FIELD_FEATURE == "tf"
TOPO_LK_BRACKET == "LK"
\* The left bracket's field where the right bracket's is meant.
LeftBracketForRightBracket == "LK"

TOPO_RK_FIELD == "VC"
TOPO_C_FIELD == "C"
TOPO_UNKNOWN_FIELD == "UK"
FINITE_VERB_TAGS == {VVFIN, VAFIN, VMFIN}

\* Field::string_value of Field::VF, Field::MF, Field::NF
FieldVF == "VF"
FieldMF == "MF"
FieldNF == "NF"

\* STRING_FIELD: the fields a PP is extracted from
STRING_FIELD == {"VF", "MF", "NF"}

\* A token: the columns of a CoNLL-X row that the program reads.
Tok(pos, features, head, head_rel, p_head, p_head_rel) ==
    [pos |-> pos, features |-> features, head |-> head, head_rel |-> head_rel,
     p_head |-> p_head, p_head_rel |-> p_head_rel]

\* The feature column with the single feature tf=field.
TopoFeatures(field) == Some([n \in {TOPO_FIELD_FEATURE} |-> Some(field)])

\* feature_value: the value of the feature, None when the token has no
\* features, the feature is missing, or it has no value.
feature_value(token, feature) ==
    IF ~token.features.some THEN None
    ELSE LET f == token.features.val
         IN  IF feature \in DOMAIN f THEN f[feature] ELSE None

\* relevant_head_tag
relevant_head_tag(tag) == StartsWith(tag, <<"N">>) \/ StartsWith(tag, <<"V">>)

----------------------------------------------------------------------------
(* The dependency graph (graph.rs).                                        *)

Precedence == [kind |-> "Precedence"]

Relation(label) == [kind |-> "Relation", label |-> label]

DependencyNode(token, offset) == [token |-> token, offset |-> offset]

Edge(source, target, weight) == [source |-> source, target |-> target, weight |-> weight]

EmptyGraph == [nodes |-> <<>>, edges |-> <<>>]

\* Graph::add_node
AddNodeTo(gr, node) == [gr EXCEPT !.nodes = Append(@, node)]

\* Graph::add_edge
AddEdgeTo(gr, source, target, weight) ==
    [gr EXCEPT !.edges = Append(@, Edge(source, target, weight))]

\* The head and relation columns sentence_to_graph reads.
TokenHead(token, proj) == IF proj THEN token.p_head ELSE token.head

TokenRel(token, proj) == IF proj THEN token.p_head_rel ELSE token.head_rel

\* WithRelationEdge with the edge drawn from the dependent to its head.
WithRelationEdgeReversed(gr, s, proj, i) ==
    LET head == TokenHead(s[i], proj)
        rel == TokenRel(s[i], proj)
    IN  IF head.some /\ head.val # 0
        THEN AddEdgeTo(gr, i, head.val, Relation(rel))
        ELSE gr

\* The relation edge of the loop body: added when the head is present and
\* not 0, from the head's node to the token's node.
WithRelationEdge(gr, s, proj, i) ==
    LET head == TokenHead(s[i], proj)
        rel == TokenRel(s[i], proj)
    IN  IF head.some /\ head.val # 0
        THEN AddEdgeTo(gr, head.val, i, Relation(rel))
        ELSE gr

\* WithPrecedenceEdge with the edge drawn for the first token too.
WithPrecedenceEdgeFromFirst(gr, i) ==
    IF i >= 1 THEN AddEdgeTo(gr, IF i > 1 THEN i - 1 ELSE i, i, Precedence) ELSE gr

\* The precedence edge of the loop body: from the previous node, when there
\* is one.
WithPrecedenceEdge(gr, i) ==
    IF i > 1 THEN AddEdgeTo(gr, i - 1, i, Precedence) ELSE gr

\* One iteration of sentence_to_graph's loop, for the token at position i.
LoopBody(gr, s, proj, i) == WithRelationEdge(WithPrecedenceEdge(gr, i), s, proj, i)

RECURSIVE AddNodes(_, _, _)
AddNodes(gr, s, i) ==
    IF i > Len(s) THEN gr
    ELSE AddNodes(AddNodeTo(gr, DependencyNode(i, i - 1)), s, i + 1)

RECURSIVE AddEdges(_, _, _, _)
AddEdges(gr, s, proj, i) ==
    IF i > Len(s) THEN gr
    ELSE AddEdges(LoopBody(gr, s, proj, i), s, proj, i + 1)

\* sentence_to_graph as a function of the sentence.
sentence_to_graph(s, proj) == AddEdges(AddNodes(EmptyGraph, s, 1), s, proj, 1)

NodeIds(gr) == 1..Len(gr.nodes)

----------------------------------------------------------------------------
(* Traversal primitives (graph.rs).                                        *)

\* The positions in raw_edges() of the edges of node index in the given
\* direction.
EdgesDirected(gr, index, direction) ==
    {k \in 1..Len(gr.edges) :
        IF direction = "Outgoing"
        THEN gr.edges[k].source = index
        ELSE gr.edges[k].target = index}

\* The greatest element of a non-empty set of integers.
Newest(S) == CHOOSE k \in S : \A j \in S : j <= k

\* What EdgeRef::target() gives for an edge found by edges_directed: the
\* node at the other end (the edge's target for an outgoing edge, its source
\* for an incoming one; the code relies on this to walk backwards).
OtherEnd(gr, k, direction) ==
    IF direction = "Outgoing" THEN gr.edges[k].target ELSE gr.edges[k].source

\* The closure AdjacentTokens::next passes to first_matching_edge.
is_precedence(e) == e = Precedence

\* is_relation
is_relation(e) == e.kind = "Relation"

\* is_auxiliary accepting every relation edge.
is_auxiliary_any(e) == e.kind = "Relation"

\* The closure resolve_verb passes to first_matching_edge.
is_auxiliary(e) == e = Relation(Some(AUXILIARY_RELATION))

\* The closure extract_ambiguous_pps passes to first_matching_edge.
is_prep_compl(e) == e = Relation(Some(PREP_COMPL_RELATION))

\* The call predicate(edge_ref.weight()) for each of the closures and
\* functions that the program passes as the predicate.
Holds(predicate, e) ==
    CASE predicate = "is_precedence" -> is_precedence(e)
      [] predicate = "is_relation" -> is_relation(e)
      [] predicate = "is_auxiliary" -> is_auxiliary(e)
      [] predicate = "is_prep_compl" -> is_prep_compl(e)

\* first_matching_edge: petgraph's Graph keeps the edges of a node as a list
\* to which add_edge prepends, so edges_directed visits the most recently
\* added edge first.
first_matching_edge(gr, index, direction, predicate) ==
    LET matching == {k \in EdgesDirected(gr, index, direction) :
                        Holds(predicate, gr.edges[k].weight)}
    IN  IF matching = {} THEN None
        ELSE Some(OtherEnd(gr, Newest(matching), direction))

\* Direction -> EdgeDirection, in AdjacentTokens::next
EdgeDirectionOf(direction) ==
    IF direction = "Preceeding" THEN "Incoming" ELSE "Outgoing"

\* AdjacentTokens::next from the iterator's current node
AdjacentNext(gr, current, direction) ==
    first_matching_edge(gr, current, EdgeDirectionOf(direction), "is_precedence")

\* adjacent_tokens: everything the iterator yields. It ends, because the
\* precedence edges lead from each node to the next only.
RECURSIVE adjacent_tokens(_, _, _)
adjacent_tokens(gr, index, direction) ==
    LET nxt == AdjacentNext(gr, index, direction)
    IN  IF nxt.some THEN <<nxt.val>> \o adjacent_tokens(gr, nxt.val, direction)
        ELSE <<>>

\* AncestorTokens::next from the iterator's current node
AncestorNext(gr, current) ==
    first_matching_edge(gr, current, "Incoming", "is_relation")

\* The first k items ancestor_tokens yields (all of them if it ends sooner).
RECURSIVE AncestorPrefix(_, _, _)
AncestorPrefix(gr, index, k) ==
    LET nxt == AncestorNext(gr, index)
    IN  IF k = 0 \/ ~nxt.some THEN <<>>
        ELSE <<nxt.val>> \o AncestorPrefix(gr, nxt.val, k - 1)

\* ancestor_tokens yields without end exactly when it yields more items than
\* the graph has nodes: it is then going round a cycle of relation edges.
AncestorsEndless(gr, index) ==
    Len(AncestorPrefix(gr, index, Len(gr.nodes) + 1)) > Len(gr.nodes)

----------------------------------------------------------------------------
(* Graph construction, step by step.                                       *)

Idle ==
    /\ start = 0 /\ cur = 0 /\ steps = 0
    /\ all = FALSE /\ eidx = 0 /\ instances = <<>> /\ last = None /\ printed = 0
    /\ p_offset = 0 /\ competition = <<>> /\ ranks = <<>>

\* The head and relation columns of the graph specifications: no head, the
\* root, or a head in the sentence with no label or one of two labels.
HeadRels(n) ==
    {<<None, None>>, <<Some(0), None>>}
    \cup {<<Some(h), r>> : h \in 1..n,
                           r \in {None, Some(AUXILIARY_RELATION), Some(PP_RELATION)}}

\* The pair of columns the graph is not built from.
OtherColumns == <<Some(1), Some("OTHER")>>

GraphToken(hr, proj) ==
    IF proj
    THEN Tok(Some(NN), None, OtherColumns[1], OtherColumns[2], hr[1], hr[2])
    ELSE Tok(Some(NN), None, hr[1], hr[2], OtherColumns[1], OtherColumns[2])

InitGraph ==
    /\ \E n \in 0..MaxLen, proj \in BOOLEAN :
          \E hr \in [1..n -> HeadRels(n)] :
             /\ sentence = [i \in 1..n |-> GraphToken(hr[i], proj)]
             /\ projective = proj
    /\ g = EmptyGraph
    /\ pc = "nodes"
    /\ idx = 0
    /\ Idle

\* The closure of the first loop: a node for the next token.
AddNode ==
    /\ pc = "nodes"
    /\ idx < Len(sentence)
    /\ g' = AddNodeTo(g, DependencyNode(idx + 1, idx))
    /\ idx' = idx + 1
    /\ UNCHANGED <<sentence, projective, pc, start, cur, steps, all, eidx,
                   instances, last, printed, p_offset, competition, ranks>>

\* collect(): every token has its node.
NodesCollected ==
    /\ pc = "nodes"
    /\ idx = Len(sentence)
    /\ pc' = "edges"
    /\ idx' = 0
    /\ UNCHANGED <<sentence, projective, g, start, cur, steps, all, eidx,
                   instances, last, printed, p_offset, competition, ranks>>

\* The body of the second loop, for the token at 0-based position idx.
AddTokenEdges ==
    /\ pc = "edges"
    /\ idx < Len(sentence)
    /\ g' = LoopBody(g, sentence, projective, idx + 1)
    /\ idx' = idx + 1
    /\ UNCHANGED <<sentence, projective, pc, start, cur, steps, all, eidx,
                   instances, last, printed, p_offset, competition, ranks>>

\* sentence_to_graph returns g.
ReturnGraph ==
    /\ pc = "edges"
    /\ idx = Len(sentence)
    /\ pc' = "built"
    /\ UNCHANGED <<sentence, projective, g, idx, start, cur, steps, all, eidx,
                   instances, last, printed, p_offset, competition, ranks>>

NextGraph == AddNode \/ NodesCollected \/ AddTokenEdges \/ ReturnGraph

SpecGraph == InitGraph /\ [][NextGraph]_vars

----------------------------------------------------------------------------
(* Claims about the constructed graph.                                     *)

PrecedenceEdges(gr) == {k \in 1..Len(gr.edges) : gr.edges[k].weight = Precedence}

RelationEdges(gr) == {k \in 1..Len(gr.edges) : is_relation(gr.edges[k].weight)}

OutgoingRelations(gr, v) == {k \in RelationEdges(gr) : gr.edges[k].source = v}

IncomingRelations(gr, v) == {k \in RelationEdges(gr) : gr.edges[k].target = v}

\* The nodes, their offsets and the precedence chain of a returned graph, and
\* the bound on its relation edges.
GraphShape ==
    LET n == Len(sentence)
    IN  /\ Len(g.nodes) = n
        /\ \A k \in 1..n : g.nodes[k] = DependencyNode(k, k - 1)
        /\ \A i \in 1..(n - 1) :
              Cardinality({k \in PrecedenceEdges(g) :
                              g.edges[k].source = i /\ g.edges[k].target = i + 1}) = 1
        /\ \A k \in PrecedenceEdges(g) :
              /\ g.edges[k].source \in 1..(n - 1)
              /\ g.edges[k].target = g.edges[k].source + 1
        /\ Cardinality(RelationEdges(g)) <= n

\* C1 as stated: one node per token at its 0-based offset, exactly the
\* precedence edges i -> i+1, n-1 of them in total, and at most n relation
\* edges. The count n-1 is wrong for the empty sentence.
C1_AsStated ==
    pc = "built" =>
        /\ GraphShape
        /\ Cardinality(PrecedenceEdges(g)) = Len(sentence) - 1

\* C1 amended: one node per token at its 0-based offset, exactly one
\* precedence edge i -> i+1 for every pair of consecutive tokens and no other
\* precedence edge (n-1 in total for n >= 1, none for the empty sentence),
\* and at most n relation edges.
C1_GraphShape ==
    pc = "built" =>
        /\ GraphShape
        /\ Cardinality(PrecedenceEdges(g)) =
              IF Len(sentence) = 0 THEN 0 ELSE Len(sentence) - 1

C1_Witness ==
    /\ pc = "built"
    /\ Len(sentence) = 3
    /\ Cardinality(PrecedenceEdges(g)) = 2
    /\ Cardinality(RelationEdges(g)) = 3

\* C2 as stated: every node of a returned graph has at most one outgoing
\* relation edge.
C2_AsStated ==
    pc = "built" =>
        \A v \in NodeIds(g) : Cardinality(OutgoingRelations(g, v)) <= 1

\* C2 amended: every node of a returned graph has at most one incoming
\* relation edge, which it has exactly when its token's head is present and
\* not 0; the edge then comes from the head's node and carries the token's
\* relation label. A node has one outgoing relation edge per dependent.
C2_OneIncomingRelation ==
    pc = "built" =>
        \A v \in NodeIds(g) :
            LET head == TokenHead(sentence[v], projective)
                rel == TokenRel(sentence[v], projective)
                inc == IncomingRelations(g, v)
                deps == {d \in NodeIds(g) :
                            TokenHead(sentence[d], projective) = Some(v)}
            IN  /\ Cardinality(inc) <= 1
                /\ (inc # {}) <=> (head.some /\ head.val # 0)
                /\ \A k \in inc :
                      g.edges[k] = Edge(head.val, v, Relation(rel))
                /\ Cardinality(OutgoingRelations(g, v)) = Cardinality(deps)

C2_Witness ==
    /\ pc = "built"
    /\ \E v \in NodeIds(g) :
          /\ Cardinality(OutgoingRelations(g, v)) = 2
          /\ Cardinality(IncomingRelations(g, v)) = 1

----------------------------------------------------------------------------
(* Relation-edge traversals, step by step: AncestorTokens::next and the    *)
(* calls of resolve_verb.                                                  *)

\* The result of a computation that returns v, of one that does not return
\* (a loop or a recursion without end), and of one that panics.
Ret(v) == [returns |-> TRUE, val |-> v]

Bottom == [returns |-> FALSE, panics |-> FALSE]

Panics == [returns |-> FALSE, panics |-> TRUE]

\* resolve_verb with a count of the calls it may still make. More calls than
\* the graph has nodes means that the recursion goes round a cycle of AUX
\* edges: the code never returns then.
RECURSIVE ResolveVerbFrom(_, _, _)
ResolveVerbFrom(gr, verb, fuel) ==
    LET aux == first_matching_edge(gr, verb, "Outgoing", "is_auxiliary")
    IN  IF ~aux.some THEN Ret(verb)
        ELSE IF fuel = 0 THEN Bottom
        ELSE ResolveVerbFrom(gr, aux.val, fuel - 1)

\* resolve_verb
resolve_verb(gr, verb) == ResolveVerbFrom(gr, verb, Len(gr.nodes))

\* The head and relation columns of the traversal specification: the root,
\* or a head in the sentence with the AUX label or another one.
WalkHeadRels(n) ==
    {<<Some(0), None>>}
    \cup {<<Some(h), r>> : h \in 1..n, r \in {Some(AUXILIARY_RELATION), Some("SUBJ")}}

InitWalk ==
    /\ \E n \in 1..MaxLen :
          \E hr \in [1..n -> WalkHeadRels(n)] :
             sentence = [i \in 1..n |-> GraphToken(hr[i], FALSE)]
    /\ projective = FALSE
    /\ g = sentence_to_graph(sentence, projective)
    /\ pc = "built"
    /\ idx = Len(sentence)
    /\ Idle

\* ancestor_tokens(graph, v)
StartAncestors ==
    /\ pc = "built"
    /\ \E v \in NodeIds(g) :
          /\ start' = v
          /\ cur' = v
    /\ steps' = 0
    /\ pc' = "ancestors"
    /\ UNCHANGED <<sentence, projective, g, idx, all, eidx, instances, last, printed,
                   p_offset, competition, ranks>>

\* AncestorTokens::next: the head of the current node is yielded and becomes
\* the current node, or the iterator ends.
AncestorsNext ==
    /\ pc = "ancestors"
    /\ steps < Len(sentence) + WalkSlack
    /\ LET nxt == AncestorNext(g, cur)
       IN  \/ /\ nxt.some
              /\ cur' = nxt.val
              /\ steps' = steps + 1
              /\ pc' = pc
           \/ /\ ~nxt.some
              /\ pc' = "ancestors_end"
              /\ UNCHANGED <<cur, steps>>
    /\ UNCHANGED <<sentence, projective, g, idx, start, all, eidx, instances,
                   last, printed, p_offset, competition, ranks>>

\* resolve_verb(graph, v)
StartResolve ==
    /\ pc = "built"
    /\ \E v \in NodeIds(g) :
          /\ start' = v
          /\ cur' = v
    /\ steps' = 0
    /\ pc' = "resolve"
    /\ UNCHANGED <<sentence, projective, g, idx, all, eidx, instances, last, printed,
                   p_offset, competition, ranks>>

\* The body of resolve_verb(graph, cur): a recursive call on the target of
\* the first AUX edge, or the return of cur.
ResolveCall ==
    /\ pc = "resolve"
    /\ steps < Len(sentence) + WalkSlack
    /\ LET aux == first_matching_edge(g, cur, "Outgoing", "is_auxiliary")
       IN  \/ /\ aux.some
              /\ cur' = aux.val
              /\ steps' = steps + 1
              /\ pc' = pc
           \/ /\ ~aux.some
              /\ pc' = "resolved"
              /\ UNCHANGED <<cur, steps>>
    /\ UNCHANGED <<sentence, projective, g, idx, start, all, eidx, instances,
                   last, printed, p_offset, competition, ranks>>

NextWalk == StartAncestors \/ AncestorsNext \/ StartResolve \/ ResolveCall

SpecWalk == InitWalk /\ [][NextWalk]_vars

----------------------------------------------------------------------------
(* Claims about the traversals.                                            *)

\* No cycle of relation edges.
Acyclic(gr) == \A v \in NodeIds(gr) : ~AncestorsEndless(gr, v)

\* The dependents a node is joined to by an edge labelled AUX.
AuxDependents(gr, v) ==
    {gr.edges[k].target :
        k \in {j \in OutgoingRelations(gr, v) :
                  gr.edges[j].weight.label = Some("AUX")}}

\* c is a chain of AUX edges from c[1] down to a node without AUX dependent,
\* each node of which has the next one as its only AUX dependent.
IsAuxChain(gr, c) ==
    /\ \A i \in 1..(Len(c) - 1) : AuxDependents(gr, c[i]) = {c[i + 1]}
    /\ AuxDependents(gr, c[Len(c)]) = {}

NodeSeqs(gr) == UNION {[1..k -> NodeIds(gr)] : k \in 1..Len(gr.nodes)}

\* C3: every relation-edge traversal ends within n steps, n the sentence
\* length: ancestor_tokens yields at most n nodes, and resolve_verb makes at
\* most n calls before it returns, also on a cycle of head indices.
C3_TraversalsBounded ==
    pc \in {"ancestors", "resolve"} => steps <= Len(sentence)

\* C4: on an acyclic graph resolve_verb returns; it returns its argument when
\* that has no AUX dependent, and the bottom of the chain of AUX edges below
\* its argument; its result has no AUX dependent and is a fixed point.
C4_ResolveVerbChain ==
    /\ (pc = "resolve" /\ Acyclic(g)) => steps < Len(sentence)
    /\ (pc = "resolved" /\ Acyclic(g)) =>
          /\ AuxDependents(g, start) = {} => cur = start
          /\ \A c \in NodeSeqs(g) :
                (c[1] = start /\ IsAuxChain(g, c)) =>
                    (cur = c[Len(c)] /\ steps = Len(c) - 1)
          /\ AuxDependents(g, cur) = {}
          /\ resolve_verb(g, start) = Ret(cur)
          /\ resolve_verb(g, cur) = Ret(cur)

C4_Witness ==
    /\ pc = "resolved"
    /\ Acyclic(g)
    /\ steps = 2
    /\ \E c \in NodeSeqs(g) : Len(c) = 3 /\ c[1] = start /\ IsAuxChain(g, c)

----------------------------------------------------------------------------
(* compute_ranks (extract-ambiguous-pps.rs).                               *)

\* struct CompetingHead
CompetingHead(node, head) == [node |-> node, head |-> head]

\* The indices of the candidates for which keep holds, in increasing order:
\* indices.iter().filter(..).collect()
RECURSIVE FilterIndices(_, _)
FilterIndices(keep, n) ==
    IF n = 0 THEN <<>>
    ELSE IF n \in keep THEN Append(FilterIndices(keep, n - 1), n)
    ELSE FilterIndices(keep, n - 1)

\* Precedes with the candidate of the smaller offset first on both sides.
PrecedesAscending(comp, order, a, b) ==
    comp[a].node.offset < comp[b].node.offset

\* The comparators of the two sort_by calls: index a sorts strictly before
\* index b. "before" is sorted by descending offset, "after" by ascending.
Precedes(comp, order, a, b) ==
    IF order = "before"
    THEN comp[b].node.offset < comp[a].node.offset
    ELSE comp[a].node.offset < comp[b].node.offset

\* x inserted into the sorted s behind every element that does not sort
\* strictly after it.
RECURSIVE InsertSorted(_, _, _, _)
InsertSorted(comp, order, s, x) ==
    IF s = <<>> THEN <<x>>
    ELSE IF Precedes(comp, order, x, s[Len(s)])
    THEN Append(InsertSorted(comp, order, SubSeq(s, 1, Len(s) - 1), x), s[Len(s)])
    ELSE Append(s, x)

\* sort_by: a stable sort, equal elements keep their order.
RECURSIVE SortBy(_, _, _)
SortBy(comp, order, s) ==
    IF s = <<>> THEN <<>>
    ELSE InsertSorted(comp, order,
                      SortBy(comp, order, SubSeq(s, 1, Len(s) - 1)), s[Len(s)])

\* The two loops over before and after: the vector starts as zeros; the r-th
\* index of the sorted "before" gets -r and the r-th of the sorted "after" r.
AssignRanks(n, before, after) ==
    [i \in 1..n |->
        IF \E r \in 1..Len(before) : before[r] = i
        THEN -(CHOOSE r \in 1..Len(before) : before[r] = i)
        ELSE IF \E r \in 1..Len(after) : after[r] = i
        THEN CHOOSE r \in 1..Len(after) : after[r] = i
        ELSE 0]

\* compute_ranks
compute_ranks(p, comp) ==
    AssignRanks(Len(comp),
        SortBy(comp, "before",
               FilterIndices({i \in 1..Len(comp) : comp[i].node.offset < p}, Len(comp))),
        SortBy(comp, "after",
               FilterIndices({i \in 1..Len(comp) : comp[i].node.offset > p}, Len(comp))))

\* The candidate vectors of the ranking specification: up to MaxCands
\* candidates at offsets 0..MaxOffset, offsets may repeat.
RankInputs ==
    UNION {[1..k -> {CompetingHead(DependencyNode(o + 1, o), FALSE) : o \in 0..MaxOffset}] :
              k \in 0..MaxCands}

InitRanks ==
    /\ sentence = <<>>
    /\ projective = FALSE
    /\ g = EmptyGraph
    /\ pc = "rank"
    /\ idx = 0 /\ start = 0 /\ cur = 0 /\ steps = 0
    /\ all = FALSE /\ eidx = 0 /\ instances = <<>> /\ last = None /\ printed = 0
    /\ p_offset \in 0..MaxOffset
    /\ competition \in RankInputs
    /\ ranks = <<>>

\* let ranks = compute_ranks(p_offset, &competition)
ComputeRanks ==
    /\ pc = "rank"
    /\ ranks' = compute_ranks(p_offset, competition)
    /\ pc' = "ranked"
    /\ UNCHANGED <<sentence, projective, g, idx, start, cur, steps, all, eidx,
                   instances, last, printed, p_offset, competition>>

NextRanks == ComputeRanks

SpecRanks == InitRanks /\ [][NextRanks]_vars

----------------------------------------------------------------------------
(* Claims about compute_ranks.                                             *)

CandidatesBefore == {i \in 1..Len(competition) : competition[i].node.offset < p_offset}

CandidatesAfter == {i \in 1..Len(competition) : competition[i].node.offset > p_offset}

CandidatesAt == {i \in 1..Len(competition) : competition[i].node.offset = p_offset}

\* C5: when no candidate is at the PP's offset, compute_ranks returns one
\* rank per candidate, in input order; the candidates before the PP get
\* -1, -2, ... by descending offset and those after it +1, +2, ... by
\* ascending offset, so on either side a more distant candidate has a rank
\* of greater magnitude.
C5_RanksByDistance ==
    (pc = "ranked" /\ CandidatesAt = {}) =>
        /\ DOMAIN ranks = 1..Len(competition)
        /\ {ranks[i] : i \in CandidatesBefore} =
              {-r : r \in 1..Cardinality(CandidatesBefore)}
        /\ {ranks[i] : i \in CandidatesAfter} = 1..Cardinality(CandidatesAfter)
        /\ \A i, j \in CandidatesBefore :
              competition[i].node.offset > competition[j].node.offset
                  => ranks[i] > ranks[j]
        /\ \A i, j \in CandidatesAfter :
              competition[i].node.offset < competition[j].node.offset
                  => ranks[i] < ranks[j]

C5_Witness ==
    /\ pc = "ranked"
    /\ CandidatesAt = {}
    /\ Cardinality(CandidatesBefore) = 2
    /\ Cardinality(CandidatesAfter) = 1
    /\ competition[1].node.offset < competition[2].node.offset
    /\ competition[2].node.offset < p_offset
    /\ ranks = <<-2, -1, 1>>

\* C6: compute_ranks never returns the rank 0 (a candidate at the PP's own
\* offset is reported as an error and gets no rank).
C6_NoZeroRank ==
    pc = "ranked" => \A i \in DOMAIN ranks : ranks[i] # 0

----------------------------------------------------------------------------
(* The competition procedures (extract-ambiguous-pps.rs). Each returns     *)
(* Ret(None), Ret(Some(candidates)), Bottom or Panics.                     *)

\* try_ok!, ok_or_continue!, ok_or_break!: the macro gives the value of an
\* Option that is present and leaves (return None, continue, break) when the
\* Option is None.
Absent(o) == ~o.some

\* graph[index].token
NodeToken(gr, s, index) == s[gr.nodes[index].token]

\* graph[index].token.pos()
NodePos(gr, s, index) == NodeToken(gr, s, index).pos

\* feature_value(graph[index].token, TOPO_FIELD_FEATURE)
NodeField(gr, s, index) == feature_value(NodeToken(gr, s, index), TOPO_FIELD_FEATURE)

\* The closures over the topological field: the field is present and one of
\* fields.
FieldIn(gr, s, index, fields) ==
    LET field == NodeField(gr, s, index)
    IN  IF field.some THEN field.val \in fields ELSE FALSE

Least(S) == CHOOSE k \in S : \A j \in S : k <= j

\* Iterator::find with a field closure, over the tokens an iterator yields.
FindField(gr, s, tokens, fields) ==
    LET hits == {i \in 1..Len(tokens) : FieldIn(gr, s, tokens[i], fields)}
    IN  IF hits = {} THEN None ELSE Some(tokens[Least(hits)])

\* Iterator::take_while with a field closure.
TakeWhileField(gr, s, tokens, fields) ==
    LET stops == {i \in 1..Len(tokens) : ~FieldIn(gr, s, tokens[i], fields)}
    IN  IF stops = {} THEN tokens ELSE SubSeq(tokens, 1, Least(stops) - 1)

\* add_tokens, from the i-th of the tokens on: a token without POS tag ends
\* the loop, a token with a relevant tag becomes a candidate.
RECURSIVE AddTokensFrom(_, _, _, _, _, _)
AddTokensFrom(gr, s, head_idx, tokens, i, candidates) ==
    IF i > Len(tokens) THEN candidates
    ELSE LET pos == NodePos(gr, s, tokens[i])
         IN  IF Absent(pos) THEN candidates
             ELSE AddTokensFrom(gr, s, head_idx, tokens, i + 1,
                     IF relevant_head_tag(pos.val)
                     THEN Append(candidates,
                                 CompetingHead(gr.nodes[tokens[i]], head_idx = tokens[i]))
                     ELSE candidates)

\* add_tokens
add_tokens(gr, s, head_idx, tokens, candidates) ==
    AddTokensFrom(gr, s, head_idx, tokens, 1, candidates)

\* The head flag of the other candidates, given to the resolved verb.
ExactHead(gr, verb_idx, head_idx) == Ret(verb_idx = head_idx)

\* verb_idx == head_idx || ancestor_tokens(graph, verb_idx).find(..).is_some():
\* the search does not return when the ancestors go round a cycle without
\* the head.
GovernsHead(gr, verb_idx, head_idx) ==
    IF verb_idx = head_idx THEN Ret(TRUE)
    ELSE LET anc == AncestorPrefix(gr, verb_idx, Len(gr.nodes) + 1)
         IN  IF \E i \in 1..Len(anc) : anc[i] = head_idx THEN Ret(TRUE)
             ELSE IF Len(anc) > Len(gr.nodes) THEN Bottom
             ELSE Ret(FALSE)

\* preceding_is_noun: pos().unwrap() panics on a token without POS tag.
preceding_is_noun(gr, s, p_idx) ==
    LET prec == AdjacentNext(gr, p_idx, "Preceeding")
    IN  IF ~prec.some THEN Ret(FALSE)
        ELSE IF ~NodePos(gr, s, prec.val).some THEN Panics
        ELSE Ret(StartsWith(NodePos(gr, s, prec.val).val, <<"N">>))

\* The candidate for the resolved verb and the two sub-scans that
\* find_competition_vf and find_competition_nf share: the tokens before the
\* PP in the PP's own field or UK, then, unless a noun precedes the PP, the
\* tokens after the left bracket in MF or UK.
FirstCandidate(gr, verb_idx, flag) == <<CompetingHead(gr.nodes[verb_idx], flag)>>

OwnFieldTokens(gr, s, p_idx, field) ==
    TakeWhileField(gr, s, adjacent_tokens(gr, p_idx, "Preceeding"),
                   {field, TOPO_UNKNOWN_FIELD})

\* All the tokens behind the left bracket, without the take_while.
TokensBehindBracket(gr, s, lk_idx) == adjacent_tokens(gr, lk_idx, "Succeeding")

MiddleFieldTokens(gr, s, lk_idx) ==
    TakeWhileField(gr, s, adjacent_tokens(gr, lk_idx, "Succeeding"),
                   {FieldMF, TOPO_UNKNOWN_FIELD})

\* The end of find_competition_vf and find_competition_nf: the middle-field
\* sub-scan is added unless a noun precedes the PP. The left bracket lk is
\* looked for only then, and the procedure returns None without one.
WithMiddleField(gr, s, head_idx, noun, lk, own) ==
    IF noun THEN Ret(Some(own))
    ELSE IF Absent(lk) THEN Ret(None)
    ELSE Ret(Some(add_tokens(gr, s, head_idx, MiddleFieldTokens(gr, s, lk.val), own)))

\* find_competition_vf and find_competition_nf from preceding_is_noun on,
\* given its result noun: the own-field sub-scan, then the middle-field one.
WithSubScans(gr, s, p_idx, head_idx, field, lk, first, noun) ==
    IF ~noun.returns THEN Panics
    ELSE WithMiddleField(gr, s, head_idx, noun.val, lk,
             add_tokens(gr, s, head_idx, OwnFieldTokens(gr, s, p_idx, field), first))

\* find_competition_vf and find_competition_nf from the push of the first
\* candidate on, given the result flag of the test for the gold head.
WithFirstCandidate(gr, s, p_idx, head_idx, field, lk, verb_idx, flag) ==
    IF ~flag.returns THEN Bottom
    ELSE WithSubScans(gr, s, p_idx, head_idx, field, lk,
                      FirstCandidate(gr, verb_idx, flag.val),
                      preceding_is_noun(gr, s, p_idx))

\* find_competition_vf and find_competition_nf behind the call of
\* resolve_verb, given its result verb.
WithVerb(gr, s, p_idx, head_idx, field, lk, verb) ==
    IF ~verb.returns THEN Bottom
    ELSE WithFirstCandidate(gr, s, p_idx, head_idx, field, lk, verb.val,
                            GovernsHead(gr, verb.val, head_idx))

\* find_competition_vf behind the search for the left bracket, given its
\* result lk.
VfWithBracket(gr, s, p_idx, head_idx, lk) ==
    IF Absent(lk) THEN Ret(None)
    ELSE WithVerb(gr, s, p_idx, head_idx, FieldVF, lk, resolve_verb(gr, lk.val))

\* find_competition_vf
find_competition_vf(gr, s, p_idx, head_idx) ==
    VfWithBracket(gr, s, p_idx, head_idx,
                  FindField(gr, s, adjacent_tokens(gr, p_idx, "Succeeding"),
                            {TOPO_LK_BRACKET}))

\* The bracket search of find_competition_nf, from the i-th of the tokens
\* before the PP on: pos().unwrap() panics on a token without POS tag.
RECURSIVE FindBracketFrom(_, _, _, _)
FindBracketFrom(gr, s, tokens, i) ==
    IF i > Len(tokens) THEN Ret(None)
    ELSE IF ~NodePos(gr, s, tokens[i]).some THEN Panics
    ELSE IF /\ FieldIn(gr, s, tokens[i], {TOPO_RK_FIELD, TOPO_LK_BRACKET})
            /\ StartsWith(NodePos(gr, s, tokens[i]).val, <<"V">>)
    THEN Ret(Some(tokens[i]))
    ELSE FindBracketFrom(gr, s, tokens, i + 1)

\* find_competition_nf behind the search for a bracket, given its result
\* bracket. The left bracket of the middle-field sub-scan is the nearest
\* token before the PP in the field C or LK.
NfWithBracket(gr, s, p_idx, head_idx, bracket) ==
    IF ~bracket.returns THEN Panics
    ELSE IF Absent(bracket.val) THEN Ret(None)
    ELSE WithVerb(gr, s, p_idx, head_idx, FieldNF,
                  FindField(gr, s, adjacent_tokens(gr, p_idx, "Preceeding"),
                            {TOPO_C_FIELD, TOPO_LK_BRACKET}),
                  resolve_verb(gr, bracket.val.val))

\* find_competition_nf
find_competition_nf(gr, s, p_idx, head_idx) ==
    NfWithBracket(gr, s, p_idx, head_idx,
                  FindBracketFrom(gr, s, adjacent_tokens(gr, p_idx, "Preceeding"), 1))

\* traverse_c_to_vc over the ancestors anc, from the i-th on. When the
\* ancestors never end and all have the field C, the loop does not end.
RECURSIVE TraverseFrom(_, _, _, _)
TraverseFrom(gr, s, anc, i) ==
    IF i > Len(anc)
    THEN IF Len(anc) > Len(gr.nodes) THEN Bottom ELSE Ret(None)
    ELSE LET field == NodeField(gr, s, anc[i])
         IN  IF Absent(field) THEN Ret(None)
             ELSE IF field.val = TOPO_RK_FIELD THEN Ret(Some(anc[i]))
             ELSE IF field.val # TOPO_C_FIELD THEN Ret(None)
             ELSE TraverseFrom(gr, s, anc, i + 1)

\* traverse_c_to_vc
traverse_c_to_vc(gr, s, index) ==
    TraverseFrom(gr, s, AncestorPrefix(gr, index, Len(gr.nodes) + 1), 1)

\* ReturnWithVerb without the candidates collected so far.
ReturnOnlyVerb(gr, head_idx, verb, candidates) ==
    IF ~verb.returns THEN Bottom
    ELSE Ret(Some(<<CompetingHead(gr.nodes[verb.val], verb.val = head_idx)>>))

\* The candidate find_competition_mf returns with after a finite verb or a
\* complementizer: the resolved verb, behind the candidates collected so far.
ReturnWithVerb(gr, head_idx, verb, candidates) ==
    IF ~verb.returns THEN Bottom
    ELSE Ret(Some(Append(candidates,
                         CompetingHead(gr.nodes[verb.val], verb.val = head_idx))))

WithResolvedVerb(gr, head_idx, from_idx, candidates) ==
    ReturnWithVerb(gr, head_idx, resolve_verb(gr, from_idx), candidates)

\* The branch of find_competition_mf for a token in the field C, given the
\* result finite of traverse_c_to_vc.
AfterComplementizer(gr, head_idx, finite, candidates) ==
    IF ~finite.returns THEN Bottom
    ELSE IF finite.val.some
    THEN WithResolvedVerb(gr, head_idx, finite.val.val, candidates)
    ELSE Ret(None)

\* The loop of find_competition_mf, from the i-th of the tokens before the PP
\* on.
RECURSIVE ScanMiddleField(_, _, _, _, _, _)
ScanMiddleField(gr, s, head_idx, tokens, i, candidates) ==
    IF i > Len(tokens) THEN Ret(None)
    ELSE
    LET pos == NodePos(gr, s, tokens[i])
        tf == NodeField(gr, s, tokens[i])
    IN  IF Absent(pos) \/ Absent(tf) THEN Ret(None)
        ELSE IF pos.val \in FINITE_VERB_TAGS
        THEN WithResolvedVerb(gr, head_idx, tokens[i], candidates)
        ELSE IF tf.val = TOPO_C_FIELD
        THEN AfterComplementizer(gr, head_idx, traverse_c_to_vc(gr, s, tokens[i]),
                                 candidates)
        ELSE IF tf.val = FieldMF \/ tf.val = TOPO_UNKNOWN_FIELD
        THEN ScanMiddleField(gr, s, head_idx, tokens, i + 1,
                IF relevant_head_tag(pos.val)
                THEN Append(candidates,
                            CompetingHead(gr.nodes[tokens[i]], head_idx = tokens[i]))
                ELSE candidates)
        ELSE Ret(None)

\* find_competition_mf
find_competition_mf(gr, s, p_idx, head_idx) ==
    ScanMiddleField(gr, s, head_idx, adjacent_tokens(gr, p_idx, "Preceeding"), 1, <<>>)

\* match *field { .. }
find_competition(gr, s, field, p_idx, head_idx) ==
    CASE field = "VF" -> find_competition_vf(gr, s, p_idx, head_idx)
      [] field = "MF" -> find_competition_mf(gr, s, p_idx, head_idx)
      [] field = "NF" -> find_competition_nf(gr, s, p_idx, head_idx)

----------------------------------------------------------------------------
(* extract_ambiguous_pps and print_graph_ambiguous_pps.                    *)

\* struct TrainingInstance
TrainingInstance(prep, prep_obj, candidates) ==
    [prep |-> prep, prep_obj |-> prep_obj, candidates |-> candidates]

\* NoAmbiguity without the test of the --all flag.
NoAmbiguityWhateverAll(candidates, flag_all) ==
    \/ ~(\E i \in 1..Len(candidates) : candidates[i].head)
    \/ Len(candidates) = 1

\* The condition under which the loop goes on to the next edge without an
\* instance: "Don't print when there is no ambiguity."
NoAmbiguity(candidates, flag_all) ==
    \/ ~(\E i \in 1..Len(candidates) : candidates[i].head)
    \/ (~flag_all /\ Len(candidates) = 1)

\* What the loop body does with a PP edge: the stage at which it left the
\* edge, the result of the competition procedure if it got that far, and
\* whether it pushed an instance.
Visit(k, edge, stage, result, reported) ==
    [edge |-> k, prep |-> edge.target, head |-> edge.source, stage |-> stage,
     result |-> result, reported |-> reported]

\* The end of the loop body, given the result of the competition procedure:
\* an instance is pushed when the procedure returned candidates and the
\* test for ambiguity lets them pass.
AfterCompetition(k, edge, flag_all, result) ==
    Visit(k, edge, "competition", result,
          /\ result.returns
          /\ result.val.some
          /\ ~NoAmbiguity(result.val.val, flag_all))

\* The body of the loop of extract_ambiguous_pps for the PP edge at position
\* k of raw_edges().
VisitEdge(gr, s, flag_all, k, edge) ==
    IF Absent(NodePos(gr, s, edge.source))
    THEN Visit(k, edge, "head without tag", None, FALSE)
    ELSE IF ~relevant_head_tag(NodePos(gr, s, edge.source).val)
    THEN Visit(k, edge, "head not relevant", None, FALSE)
    ELSE IF Absent(NodeField(gr, s, edge.target))
    THEN Visit(k, edge, "no field", None, FALSE)
    ELSE IF NodeField(gr, s, edge.target).val \notin STRING_FIELD
    THEN Visit(k, edge, "other field", None, FALSE)
    ELSE IF Absent(first_matching_edge(gr, edge.target, "Outgoing", "is_prep_compl"))
    THEN Visit(k, edge, "no complement", None, FALSE)
    ELSE AfterCompetition(k, edge, flag_all,
             find_competition(gr, s, NodeField(gr, s, edge.target).val,
                              edge.target, edge.source))

\* The positions in raw_edges() of the PP edges behind the first from edges.
PPEdgesAfter(gr, from) ==
    {k \in (from + 1)..Len(gr.edges) :
        gr.edges[k].weight = Relation(Some(PP_RELATION))}

\* The tokens of the extraction specification beside the PP and its
\* complement: a tag, a topological field, and the root or a head in the
\* sentence. The AUX label is that of a verb in the left or the right
\* bracket; the other tokens have another label.
FreeKinds ==
    {<<Some(NN), TopoFeatures("UK")>>,
     <<Some(VVFIN), TopoFeatures("LK")>>,
     <<Some(VVPP), TopoFeatures("VC")>>,
     <<Some(KOUS), TopoFeatures("C")>>,
     <<Some(VVFIN), TopoFeatures("C")>>,
     <<None, TopoFeatures("C")>>,
     <<None, TopoFeatures("UK")>>,
     <<Some(VVFIN), None>>}

FreeHeadRels(n, kind) ==
    IF kind[2] \in {TopoFeatures("VC"), TopoFeatures("LK")}
    THEN WalkHeadRels(n)
    ELSE {hr \in WalkHeadRels(n) : hr[2] # Some(AUXILIARY_RELATION)}

FreeTokens(n) ==
    UNION {{Tok(kind[1], kind[2], hr[1], hr[2], None, None) :
               hr \in FreeHeadRels(n, kind)} : kind \in FreeKinds}

\* The token with the PP label, a preposition or a noun, in the given field
\* and attached to the head h.
PPToken(pos, field, h) ==
    Tok(Some(pos), TopoFeatures(field), Some(h), Some(PP_RELATION), None, None)

\* The preposition's complement.
PNToken(field, p) ==
    Tok(Some(NN), TopoFeatures(field), Some(p), Some(PREP_COMPL_RELATION), None, None)

InitExtract ==
    /\ \E n \in 3..ExtractLen, field \in STRING_FIELD :
          \E p \in 1..(n - 1), h \in 1..n, pos \in {APPR, NN} :
             \E free \in [(1..n) \ {p, p + 1} -> FreeTokens(n)] :
                sentence = [i \in 1..n |->
                               IF i = p THEN PPToken(pos, field, h)
                               ELSE IF i = p + 1 THEN PNToken(field, p)
                               ELSE free[i]]
    /\ projective = FALSE
    /\ g = sentence_to_graph(sentence, projective)
    /\ pc = "extract"
    /\ idx = Len(sentence)
    /\ start = 0 /\ cur = 0 /\ steps = 0
    /\ all \in BOOLEAN
    /\ eidx = 0 /\ instances = <<>> /\ last = None /\ printed = 0
    /\ p_offset = 0 /\ competition = <<>> /\ ranks = <<>>

\* The effect of a turn of the loop on the program: the instance pushed, and
\* the end of the program in a panic or in a computation without end.
Visited(k, visit, pn_rel) ==
    /\ eidx' = k
    /\ last' = Some(visit)
    /\ instances' =
          IF visit.reported
          THEN Append(instances,
                      TrainingInstance(visit.prep, pn_rel.val, visit.result.val.val))
          ELSE instances
    /\ pc' = IF visit.stage = "competition" /\ ~visit.result.returns
             THEN IF visit.result.panics THEN "panic" ELSE "diverge"
             ELSE pc

\* The turn of the loop for the edge at position k of raw_edges().
VisitAt(k) ==
    Visited(k, VisitEdge(g, sentence, all, k, g.edges[k]),
            first_matching_edge(g, g.edges[k].target, "Outgoing", "is_prep_compl"))

\* One turn of the loop over raw_edges() that gets past the test for the PP
\* relation.
VisitPPEdge ==
    /\ pc = "extract"
    /\ PPEdgesAfter(g, eidx) # {}
    /\ VisitAt(Least(PPEdgesAfter(g, eidx)))
    /\ UNCHANGED <<sentence, projective, g, idx, start, cur, steps, all,
                   printed, p_offset, competition, ranks>>

\* The loop is over: extract_ambiguous_pps returns instances.
ExtractReturn ==
    /\ pc = "extract"
    /\ PPEdgesAfter(g, eidx) = {}
    /\ eidx' = Len(g.edges)
    /\ pc' = "extracted"
    /\ UNCHANGED <<sentence, projective, g, idx, start, cur, steps, all,
                   instances, last, printed, p_offset, competition, ranks>>

\* The body of the loop of print_graph_ambiguous_pps: the instance is left
\* when the preposition or its complement has no POS tag, and ranked
\* otherwise.
Printed(instance) ==
    IF \/ Absent(NodePos(g, sentence, instance.prep))
       \/ Absent(NodePos(g, sentence, instance.prep_obj))
    THEN UNCHANGED <<p_offset, competition, ranks>>
    ELSE /\ p_offset' = g.nodes[instance.prep].offset
         /\ competition' = instance.candidates
         /\ ranks' = compute_ranks(g.nodes[instance.prep].offset, instance.candidates)

\* One turn of the loop of print_graph_ambiguous_pps.
PrintInstance ==
    /\ pc = "extracted"
    /\ printed < Len(instances)
    /\ Printed(instances[printed + 1])
    /\ printed' = printed + 1
    /\ UNCHANGED <<sentence, projective, g, pc, idx, start, cur, steps, all,
                   eidx, instances, last>>

NextExtract == VisitPPEdge \/ ExtractReturn \/ PrintInstance

SpecExtract == InitExtract /\ [][NextExtract]_vars

----------------------------------------------------------------------------
(* The same program on longer sentences whose tokens, beside the PP and    *)
(* its complement, are attached to the root: the runs of tokens that the   *)
(* sub-scans of the competition procedures go over get longer.             *)

ScanKinds ==
    {<<Some(NN), TopoFeatures("UK")>>,
     <<Some(VVPP), TopoFeatures("UK")>>,
     <<Some(KOUS), TopoFeatures("UK")>>,
     <<None, TopoFeatures("UK")>>,
     <<Some(VVFIN), TopoFeatures("LK")>>,
     <<Some(VVPP), TopoFeatures("VC")>>,
     <<Some(KOUS), TopoFeatures("C")>>}

ScanTokens == {Tok(kind[1], kind[2], Some(0), None, None, None) : kind \in ScanKinds}

InitScans ==
    /\ \E n \in 3..ScanLen, field \in STRING_FIELD :
          \E p \in 1..(n - 1), h \in 1..n, pos \in {APPR, NN} :
             \E free \in [(1..n) \ {p, p + 1} -> ScanTokens] :
                sentence = [i \in 1..n |->
                               IF i = p THEN PPToken(pos, field, h)
                               ELSE IF i = p + 1 THEN PNToken(field, p)
                               ELSE free[i]]
    /\ projective = FALSE
    /\ g = sentence_to_graph(sentence, projective)
    /\ pc = "extract"
    /\ idx = Len(sentence)
    /\ start = 0 /\ cur = 0 /\ steps = 0
    /\ all \in BOOLEAN
    /\ eidx = 0 /\ instances = <<>> /\ last = None /\ printed = 0
    /\ p_offset = 0 /\ competition = <<>> /\ ranks = <<>>

SpecScans == InitScans /\ [][NextExtract]_vars

----------------------------------------------------------------------------
(* Claims about extract_ambiguous_pps and the competition procedures.      *)

\* The last turn of the loop got as far as the competition procedure.
Competed == last.some /\ last.val.stage = "competition"

\* The competition procedure of the last turn returned Some(candidates).
Returned ==
    /\ Competed
    /\ last.val.result.returns
    /\ last.val.result.val.some

Candidates == last.val.result.val.val

\* The topological field of the PP of the last turn.
PPField == NodeField(g, sentence, last.val.prep)

\* The token right before the PP of the last turn, if there is one.
PrecedingToken == AdjacentNext(g, last.val.prep, "Preceeding")

\* C7: no candidate that find_competition_vf, find_competition_mf or
\* find_competition_nf returns for a PP edge is the PP node itself, and no
\* candidate passed to compute_ranks has the PP's offset.
C7_NoCandidateIsThePP ==
    /\ Returned =>
          \A i \in 1..Len(Candidates) :
             /\ Candidates[i].node # g.nodes[last.val.prep]
             /\ Candidates[i].node.offset # g.nodes[last.val.prep].offset
    /\ \A i \in 1..Len(competition) : competition[i].node.offset # p_offset

\* A PP with a noun's tag in the NF, right behind the left bracket: the scan
\* of the middle field from the bracket on stops at the PP. The instance has
\* been ranked.
C7_Witness ==
    /\ Returned
    /\ PPField = Some("NF")
    /\ NodePos(g, sentence, last.val.prep) = Some(NN)
    /\ PrecedingToken.some
    /\ FieldIn(g, sentence, PrecedingToken.val, {"LK"})
    /\ printed = 1
    /\ competition = Candidates
    /\ p_offset = g.nodes[last.val.prep].offset
    /\ ranks = <<-1>>

\* C8: for a PP whose competition procedure returned candidates, an instance
\* is reported if and only if some candidate has the head flag and either
\* --all is given or there is more than one candidate.
C8_ReportedIff ==
    Returned =>
        /\ last.val.reported <=>
              /\ \E i \in 1..Len(Candidates) : Candidates[i].head
              /\ (all \/ Len(Candidates) > 1)
        /\ last.val.reported <=>
              \E i \in 1..Len(instances) :
                 /\ instances[i].prep = last.val.prep
                 /\ instances[i].candidates = Candidates

\* The only candidate is the gold head and --all is given: reported.
C8_Witness ==
    /\ Returned
    /\ all
    /\ Len(Candidates) = 1
    /\ Candidates[1].head
    /\ last.val.reported
    /\ Len(instances) = 1

\* The PP of the last turn is in the MF and the token right before it has
\* the field C.
AfterComplementizerField ==
    /\ Competed
    /\ PPField = Some("MF")
    /\ PrecedingToken.some
    /\ FieldIn(g, sentence, PrecedingToken.val, {"C"})

\* The ancestors of that token, and those of them outside the field C.
ClauseAncestors == AncestorPrefix(g, PrecedingToken.val, Len(g.nodes) + 1)

AncestorsOutsideC ==
    {i \in 1..Len(ClauseAncestors) : ~FieldIn(g, sentence, ClauseAncestors[i], {"C"})}

\* The walk meets a VC node first.
ClauseHeadFound ==
    /\ AncestorsOutsideC # {}
    /\ FieldIn(g, sentence, ClauseAncestors[Least(AncestorsOutsideC)], {"VC"})

ClauseHead == ClauseAncestors[Least(AncestorsOutsideC)]

\* The walk meets a node that is in neither C nor VC, or gets to a root
\* without a VC node.
NoClauseHead ==
    \/ /\ AncestorsOutsideC # {}
       /\ ~FieldIn(g, sentence, ClauseAncestors[Least(AncestorsOutsideC)], {"VC"})
    \/ /\ AncestorsOutsideC = {}
       /\ Len(ClauseAncestors) <= Len(g.nodes)

\* The only candidate is the verb that resolve_verb gives for the VC node.
OnlyResolvedClauseHead ==
    /\ resolve_verb(g, ClauseHead).returns
    /\ last.val.result =
          Ret(Some(<<CompetingHead(g.nodes[resolve_verb(g, ClauseHead).val],
                                   resolve_verb(g, ClauseHead).val = last.val.head)>>))

\* C9 as the claim has it, for every token in the field C right before a PP
\* in the MF: without a VC node find_competition_mf returns nothing and no
\* instance is reported; with one, the resolved verb is appended and the
\* procedure returns.
C9_AsStated ==
    AfterComplementizerField =>
        /\ NoClauseHead => (last.val.result = Ret(None) /\ ~last.val.reported)
        /\ ClauseHeadFound => OnlyResolvedClauseHead

\* C9: for a PP in the MF whose preceding token has the field C and a POS
\* tag that is not a finite verb's: when the walk over the ancestors meets a
\* node in neither C nor VC, or a root, find_competition_mf returns nothing
\* and no instance is reported; when it meets a VC node first, the procedure
\* does not return nothing, it returns exactly when resolve_verb does, and
\* what it returns is the resolved verb as the only candidate.
C9_ComplementizerBranch ==
    (/\ AfterComplementizerField
     /\ NodePos(g, sentence, PrecedingToken.val).some
     /\ NodePos(g, sentence, PrecedingToken.val).val \notin {VVFIN, VAFIN, VMFIN}) =>
        /\ NoClauseHead => (last.val.result = Ret(None) /\ ~last.val.reported)
        /\ ClauseHeadFound =>
              /\ last.val.result # Ret(None)
              /\ last.val.result # Panics
              /\ last.val.result.returns <=> resolve_verb(g, ClauseHead).returns
              /\ last.val.result.returns => OnlyResolvedClauseHead

\* A complementizer right before the PP, a VC node as its head, and the PP
\* attached to the verb resolved from it: reported with --all.
C9_Witness ==
    /\ AfterComplementizerField
    /\ NodePos(g, sentence, PrecedingToken.val) = Some(KOUS)
    /\ ClauseHeadFound
    /\ OnlyResolvedClauseHead
    /\ Candidates[1].head
    /\ last.val.reported

\* C10: when the PP's head or the token right before the PP has no POS tag,
\* no instance is reported for the PP and the run does not abort.
C10_MissingTagSkipsPP ==
    (/\ last.some
     /\ \/ Absent(NodePos(g, sentence, last.val.head))
        \/ /\ PrecedingToken.some
           /\ Absent(NodePos(g, sentence, PrecedingToken.val))) =>
        /\ ~last.val.reported
        /\ pc # "panic"

Greatest(S) == CHOOSE k \in S : \A j \in S : k >= j

\* The tokens behind the PP of the last turn in the field LK, and the tokens
\* before it in the field VC or LK with a verb's tag.
BracketsAfterPP ==
    {k \in (last.val.prep + 1)..Len(sentence) : FieldIn(g, sentence, k, {"LK"})}

VerbBracketsBeforePP ==
    {k \in 1..(last.val.prep - 1) :
        /\ FieldIn(g, sentence, k, {"VC", "LK"})
        /\ sentence[k].pos.some
        /\ StartsWith(sentence[k].pos.val, <<"V">>)}

\* The bracket the VF procedure, resp. the NF procedure, starts from.
Bracket ==
    IF PPField = Some("VF") THEN Least(BracketsAfterPP)
    ELSE Greatest(VerbBracketsBeforePP)

ResolvedBracket == resolve_verb(g, Bracket)

\* The tokens met from the token v by going to the head up to k times.
RECURSIVE HeadsWithin(_, _)
HeadsWithin(v, k) ==
    IF k = 0 \/ ~sentence[v].head.some \/ sentence[v].head.val = 0 THEN {}
    ELSE {sentence[v].head.val} \cup HeadsWithin(sentence[v].head.val, k - 1)

\* C11: when find_competition_vf (find_competition_nf) returns candidates,
\* the first is resolve_verb of the nearest LK token behind the PP (of the
\* nearest token before the PP in VC or LK with a tag that starts with V);
\* its head flag is true exactly when the resolved node is the gold head or
\* the gold head is among its ancestors; the head flag of every later
\* candidate is true exactly when its node is the gold head.
C11_FirstCandidate ==
    (Returned /\ PPField \in {Some("VF"), Some("NF")}) =>
        /\ ResolvedBracket.returns
        /\ Candidates[1].node = g.nodes[ResolvedBracket.val]
        /\ Candidates[1].head <=>
              \/ ResolvedBracket.val = last.val.head
              \/ last.val.head \in HeadsWithin(ResolvedBracket.val, Len(sentence))
        /\ \A i \in 2..Len(Candidates) :
              Candidates[i].head <=> Candidates[i].node = g.nodes[last.val.head]

\* A PP in the VF: the resolved verb is not the gold head but below it, and
\* a later candidate is the gold head.
C11_Witness ==
    /\ Returned
    /\ PPField = Some("VF")
    /\ ResolvedBracket.val # last.val.head
    /\ Candidates[1].head
    /\ Len(Candidates) >= 2
    /\ Candidates[2].head
    /\ Candidates[2].node = g.nodes[last.val.head]

\* The tokens before the PP of the last turn with a finite verb's tag, the
\* nearest of them, and the tokens between it and the PP.
FiniteBeforePP ==
    {k \in 1..(last.val.prep - 1) :
        sentence[k].pos \in {Some(VVFIN), Some(VAFIN), Some(VMFIN)}}

NearestFinite == Greatest(FiniteBeforePP)

BetweenFiniteAndPP == (NearestFinite + 1)..(last.val.prep - 1)

\* The scan of find_competition_mf from the PP leftwards gets to a token
\* with a finite verb's tag: the tokens before have a POS tag and the field
\* MF or UK.
ReachesFinite ==
    /\ Competed
    /\ PPField = Some("MF")
    /\ FiniteBeforePP # {}
    /\ \A k \in BetweenFiniteAndPP :
          /\ sentence[k].pos.some
          /\ FieldIn(g, sentence, k, {"MF", "UK"})

\* The i-th member of S from the greatest down.
NthNearest(S, i) == CHOOSE k \in S : Cardinality({j \in S : j > k}) = i - 1

\* The candidates for the tokens between the finite verb and the PP with a
\* relevant tag, nearest first.
RelevantBetween ==
    {k \in BetweenFiniteAndPP : relevant_head_tag(sentence[k].pos.val)}

ScannedCandidates ==
    [i \in 1..Cardinality(RelevantBetween) |->
        CompetingHead(g.nodes[NthNearest(RelevantBetween, i)],
                      NthNearest(RelevantBetween, i) = last.val.head)]

ResolvedFinite == resolve_verb(g, NearestFinite)

FiniteCandidate ==
    CompetingHead(g.nodes[ResolvedFinite.val], ResolvedFinite.val = last.val.head)

\* C12 as the claim has it: find_competition_mf returns, and the resolved
\* verb of the finite verb is the sole candidate.
C12_AsStated ==
    ReachesFinite =>
        /\ ResolvedFinite.returns
        /\ last.val.result = Ret(Some(<<FiniteCandidate>>))

\* C12: when the leftward scan of find_competition_mf gets to a token with
\* the tag VVFIN, VAFIN or VMFIN that has a topological field, the scan
\* stops there: the procedure does not return nothing, it returns exactly
\* when resolve_verb does for that token, and it returns the relevant tokens
\* scanned before, nearest first, followed by the resolved verb as the last
\* candidate, whose head flag is true exactly when it is the gold head.
C12_FiniteVerbEndsScan ==
    (ReachesFinite /\ NodeField(g, sentence, NearestFinite).some) =>
        /\ last.val.result # Ret(None)
        /\ last.val.result # Panics
        /\ last.val.result.returns <=> ResolvedFinite.returns
        /\ last.val.result.returns =>
              last.val.result = Ret(Some(Append(ScannedCandidates, FiniteCandidate)))

\* A noun between the finite verb and the PP: two candidates, the noun and
\* then the verb, which is the gold head.
C12_Witness ==
    /\ ReachesFinite
    /\ NodeField(g, sentence, NearestFinite).some
    /\ Cardinality(RelevantBetween) = 1
    /\ Returned
    /\ Len(Candidates) = 2
    /\ Candidates[1].node = g.nodes[last.val.prep - 1]
    /\ Candidates[2] = FiniteCandidate
    /\ Candidates[2].head
    /\ last.val.reported

\* Every token of the sentence has a POS tag.
AllTagged == \A k \in 1..Len(sentence) : sentence[k].pos.some

\* C13: find_competition_vf returns candidates whenever a token behind the
\* PP has the field LK, and find_competition_nf whenever a token before the
\* PP has the field VC or LK and a tag that starts with V, all tokens having
\* POS tags (and the relation edges being without cycle).
C13_AbandonsOnlyAtBracketSearch ==
    (Competed /\ AllTagged /\ Acyclic(g)) =>
        /\ (PPField = Some("VF") /\ BracketsAfterPP # {}) => Returned
        /\ (PPField = Some("NF") /\ VerbBracketsBeforePP # {}) => Returned

\* The token right before the PP of the last turn has a noun's tag.
NounPreceded ==
    /\ last.val.prep > 1
    /\ sentence[last.val.prep - 1].pos.some
    /\ StartsWith(sentence[last.val.prep - 1].pos.val, <<"N">>)

\* The run of tokens before the PP in the PP's own field or UK.
OwnRun ==
    {k \in 1..(last.val.prep - 1) :
        \A j \in k..(last.val.prep - 1) :
           FieldIn(g, sentence, j, {PPField.val, "UK"})}

\* The left bracket of the middle-field sub-scan: the nearest LK token
\* behind a PP in the VF, the nearest C or LK token before a PP in the NF.
LeftBracket ==
    IF PPField = Some("VF") THEN Least(BracketsAfterPP)
    ELSE Greatest({k \in 1..(last.val.prep - 1) :
                      FieldIn(g, sentence, k, {"C", "LK"})})

\* The run of tokens behind the left bracket in the field MF or UK.
MiddleRun ==
    {k \in (LeftBracket + 1)..Len(sentence) :
        \A j \in (LeftBracket + 1)..k : FieldIn(g, sentence, j, {"MF", "UK"})}

\* The tokens of a run whose tag starts with N or V.
RelevantIn(run) ==
    {k \in run : /\ sentence[k].pos.some
                 /\ \/ StartsWith(sentence[k].pos.val, <<"N">>)
                    \/ StartsWith(sentence[k].pos.val, <<"V">>)}

\* The tokens of the candidates behind the first one.
SubScanTokens == {Candidates[i].node.token : i \in 2..Len(Candidates)}

\* C14: in the candidates that find_competition_vf and find_competition_nf
\* return, those behind the first are the tokens with a tag in N or V of the
\* run before the PP in its own field or UK, in every case, and those of
\* the run behind the left bracket in MF or UK if and only if the token
\* before the PP is absent or has no noun's tag.
C14_SubScans ==
    (Returned /\ PPField \in {Some("VF"), Some("NF")}) =>
        /\ SubScanTokens =
              RelevantIn(OwnRun)
                 \cup (IF NounPreceded THEN {} ELSE RelevantIn(MiddleRun))
        /\ Len(Candidates) - 1 =
              Cardinality(RelevantIn(OwnRun))
                 + (IF NounPreceded THEN 0 ELSE Cardinality(RelevantIn(MiddleRun)))

\* C15: in the candidates that a competition procedure returns no node
\* occurs twice, and compute_ranks gives no token two different ranks.
C15_NoNodeTwice ==
    /\ Returned =>
          \A i, j \in 1..Len(Candidates) :
             Candidates[i].node = Candidates[j].node => i = j
    /\ \A i, j \in 1..Len(ranks) :
          competition[i].node = competition[j].node => ranks[i] = ranks[j]

====
